---- MODULE Spec2Model ----
(***************************************************************************)
(* The on-demand model cache of the two-stage car classifier:              *)
(* CarModelClassifier (app/services/car_model_classifier.py) with the      *)
(* file helpers (app/utils/file_utils.py), the downloader                  *)
(* (app/utils/downloader.py) and the brand->drive-id configuration         *)
(* (app/core/config.py).                                                   *)
(*                                                                         *)
(* File names and brand strings are sequences of atoms (an atom stands for *)
(* one word or one separator character), so that normalisation and glob    *)
(* matching are computed on the text as the code computes them.            *)
(*                                                                         *)
(* Callers are processes that run one operation of the classifier at a     *)
(* time, one shared-state access per step.  Two schedules are given:       *)
(*   Spec     callers interleave freely (a worker pool sharing the one     *)
(*            classifier; the class takes no lock anywhere);               *)
(*   SeqSpec  one caller runs the operations one after another (the async  *)
(*            handlers of app/api call the classifier without awaiting,    *)
(*            so one event loop runs them to completion one by one).       *)
(***************************************************************************)
EXTENDS Naturals, Sequences, FiniteSets, TLC

VARIABLES
    loaded_models,   \* self.loaded_models: brand -> identity of the cached model object, or None
    backing,         \* history: brand -> the file the cached object was read from
    disk,            \* path -> content of the file, or NoFile
    legacy_exists,   \* whether BASE_DIR/models/car_model exists
    drive_ids,       \* settings.get_brand_model_ids_map(): brand -> file id, "" when absent
    pc,              \* caller -> position in the operation it runs
    op,              \* caller -> operation (kept after return until the next one starts)
    brand,           \* caller -> brand argument
    model_path,      \* caller -> local model_path of _load_brand_model / cleanup_brand_model
    dl_path,         \* caller -> local model_path of _download_brand_model
    removed,         \* caller -> local removed of cleanup_brand_model
    brands_in_cache, \* caller -> keys of cleanup_all_models still to visit
    key,             \* caller -> loop variable brand of cleanup_all_models
    n_in_cache,      \* caller -> len(brands_in_cache)
    listing,         \* caller -> files of the glob of clear_directory still to visit
    cur,             \* caller -> file_path of the current iteration of clear_directory
    count,           \* caller -> local count of clear_directory
    result,          \* caller -> what the last operation returned
    ticket,          \* caller -> identity of the object this _load_brand_model call builds
    calls,           \* number of _load_brand_model calls started so far
    serial,          \* schedule: TRUE when operations are run one after another
    overlap,         \* history: caller -> callers whose call on the same brand overlapped this one
    attempted,       \* history: caller -> the current call issued a download
    built,           \* history: caller -> the current call constructed a network
    unlinked,        \* history: caller -> the files its operation unlinked
    pre,             \* history: cache and disk when the latest operation started
    lastRet,         \* history: the latest operation that returned
    after,           \* history: caller -> lastRet when its operation started
    checkpoint,      \* the dict torch.load returned, as far as the inspection reads it
    classifier,      \* the class whose inspection runs: CarModelClassifier or BrandClassifier
    arch_name,       \* local arch_name of the loading method
    hidden_size,     \* local hidden_size of the loading method
    ipc,             \* position of the inspection
    model,           \* the network _create_model_architecture built
    entry,           \* what the load left behind: the cached dict, or self.model
    probabilities,   \* predict: the row F.softmax gives, one value per class (class 0 first)
    top_k,           \* predict: the argument top_k
    idx_to_model,    \* predict: the keys of idx_to_model / idx_to_class
    top_indices,     \* predict: top_indices[0] of torch.topk
    predictions,     \* predict: the list predictions
    rpc,             \* predict: position in the method
    brand_classifier,     \* module -> its global brand_classifier is not None
    car_model_classifier, \* module -> its global car_model_classifier is not None
    AUTO_CLEANUP_MODELS,  \* settings.AUTO_CLEANUP_MODELS
    request,         \* the frame of predict_car: its arguments and locals
    response         \* the latest HTTP response, with the globals its handler found

shared == <<loaded_models, backing, disk>>
config == <<legacy_exists, drive_ids, serial>>
locals == <<model_path, dl_path, removed, brands_in_cache, key, n_in_cache, listing, cur, count>>
control == <<pc, op, brand, result, ticket, calls>>
history == <<overlap, attempted, built, unlinked, pre, lastRet, after>>
inspection == <<checkpoint, classifier, arch_name, hidden_size, ipc, model, entry>>
inference == <<probabilities, top_k, idx_to_model, top_indices, predictions, rpc>>
api == <<brand_classifier, car_model_classifier, AUTO_CLEANUP_MODELS, request, response>>
vars == <<shared, config, locals, control, history, inspection, inference, api>>

(***************************************************************************)
(* Bounds                                                                  *)
(***************************************************************************)
NumProcs == 2
MaxCalls == 3

Procs == 1..NumProcs
NoFile == "NoFile"
NoPath == <<"", <<>>>>
NoBrand == <<>>

(***************************************************************************)
(* Brand strings and file names                                            *)
(***************************************************************************)
Audi == <<"Audi">>
AudiSport == <<"Audi", " ", "Sport">>
Brands == {Audi, AudiSport}

\* FileUtils.normalize_brand_name: ' ', '-' and '/' become '_'
normalize_brand_name(b) ==
    [i \in 1..Len(b) |-> IF b[i] \in {" ", "-", "/"} THEN "_" ELSE b[i]]

\* names carry no ".pth": every file of the model has that extension
LegacyNames ==
    { <<"Audi", "_", "model", "_", "acc", "_", "90.89">>,
      <<"Audi", "_", "model">>,
      <<"Audi", "_", "Sport", "_", "model">> }

CanonicalName(b) == normalize_brand_name(b) \o <<"_", "efficientnet", "_", "b3">>

LegacyPath(n) == <<"car_model", n>>
ModelsPath(n) == <<"car_models", n>>
Paths == {LegacyPath(n) : n \in LegacyNames} \cup {ModelsPath(CanonicalName(b)) : b \in Brands}
ModelsPaths == {p \in Paths : p[1] = "car_models"}

IsPrefix(s, t) == Len(s) <= Len(t) /\ SubSeq(t, 1, Len(s)) = s

\* the three glob patterns of _get_model_path, in the order the code tries them
GlobMatch(k, safe_brand, n) ==
    CASE k = 1 -> IsPrefix(safe_brand \o <<"_", "model", "_", "acc", "_">>, n)
      [] k = 2 -> n = safe_brand \o <<"_", "model">>
      [] k = 3 -> IsPrefix(safe_brand \o <<"_">>, n)

Exists(d, path) == d[path] # NoFile

Matches(k, b, d) ==
    {LegacyPath(n) : n \in {m \in LegacyNames :
        Exists(d, LegacyPath(m)) /\ GlobMatch(k, normalize_brand_name(b), m)}}

\* a slip: the loosest pattern is tried first
GetModelPathLoosestFirst(b, d, legacy) ==
    IF legacy /\ Matches(3, b, d) # {} THEN Matches(3, b, d)
    ELSE IF legacy /\ Matches(2, b, d) # {} THEN Matches(2, b, d)
    ELSE IF legacy /\ Matches(1, b, d) # {} THEN Matches(1, b, d)
    ELSE {ModelsPath(CanonicalName(b))}

\* a slip: the legacy directory is not searched
GetModelPathCanonical(b, d, legacy) == {ModelsPath(CanonicalName(b))}

\* _get_model_path: the paths the call may return (glob order is the file system's)
GetModelPath(b, d, legacy) ==
    IF legacy /\ Matches(1, b, d) # {} THEN Matches(1, b, d)
    ELSE IF legacy /\ Matches(2, b, d) # {} THEN Matches(2, b, d)
    ELSE IF legacy /\ Matches(3, b, d) # {} THEN Matches(3, b, d)
    ELSE {ModelsPath(CanonicalName(b))}

\* a slip: the url is built whether or not the brand has an id
GetBrandModelUrlUnchecked(b, ids) == <<"https://drive.google.com/uc?id=", ids[b]>>

\* ModelDownloader.get_brand_model_url: None (the empty text here) when the brand
\* has no id or an empty one
GetBrandModelUrl(b, ids) ==
    IF ids[b] = "" THEN <<>> ELSE <<"https://drive.google.com/uc?id=", ids[b]>>

\* the guard of download_from_drive: not drive_url or 'SEU_FILE_ID' in drive_url
UrlNotConfigured(url) == url = <<>> \/ \E i \in 1..Len(url) : url[i] = "SEU_FILE_ID"

\* what a file holds, by what loading it does: "empty" (zero bytes) and
\* "corrupt" make torch.load raise, "mismatch" makes load_state_dict raise
Contents == {"ok", "corrupt", "mismatch", "empty"}

\* what an operation returns: a cached entry, an exception, a bool, the two
\* counts, or the totals and the models list of get_loaded_models_info
Res(k, x, y, w) == [kind |-> k, a |-> x, b |-> y, why |-> w, models |-> <<>>]
NoResult == Res("none", 0, 0, "")
Entry(id) == Res("entry", id, 0, "")
Raise(why) == Res("raise", 0, 0, why)
Bool(x) == Res("bool", IF x THEN 1 ELSE 0, 0, "")
Counts(c, d) == Res("counts", c, d, "")
Info(in_memory, on_disk, models_info) ==
    [Res("info", in_memory, on_disk, "") EXCEPT !.models = models_info]

\* brand in self.loaded_models
InCache(b, lm) == lm[b] # 0

\* a slip: the entry is left in the dictionary
DelEntryKept(lm, b) == lm

\* del self.loaded_models[brand]
DelEntry(lm, b) == [lm EXCEPT ![b] = 0]

\* a returned operation, with the cache it found
NoCall == [op |-> "", brand |-> NoBrand, res |-> NoResult, was |-> [b \in Brands |-> 0]]

(***************************************************************************)
(* Initial state: an empty cache (car_model_classifier.py:36), some legacy *)
(* files, some checkpoints already in the models directory, a drive-id map *)
(***************************************************************************)
DriveIdValues == {"", "1AbC"}

InitCommon ==
    /\ loaded_models = [b \in Brands |-> 0]
    /\ backing = [b \in Brands |-> NoPath]
    /\ legacy_exists \in BOOLEAN
    /\ disk \in [Paths -> {NoFile, "ok"}]
    /\ legacy_exists = FALSE => \A n \in LegacyNames : disk[LegacyPath(n)] = NoFile
    /\ drive_ids \in [Brands -> DriveIdValues]
    /\ pc = [p \in Procs |-> "idle"]
    /\ op = [p \in Procs |-> ""]
    /\ brand = [p \in Procs |-> NoBrand]
    /\ model_path = [p \in Procs |-> NoPath]
    /\ dl_path = [p \in Procs |-> NoPath]
    /\ removed = [p \in Procs |-> FALSE]
    /\ brands_in_cache = [p \in Procs |-> {}]
    /\ key = [p \in Procs |-> NoBrand]
    /\ n_in_cache = [p \in Procs |-> 0]
    /\ listing = [p \in Procs |-> {}]
    /\ cur = [p \in Procs |-> NoPath]
    /\ count = [p \in Procs |-> 0]
    /\ result = [p \in Procs |-> NoResult]
    /\ ticket = [p \in Procs |-> 0]
    /\ calls = 0
    /\ overlap = [p \in Procs |-> {}]
    /\ attempted = [p \in Procs |-> FALSE]
    /\ built = [p \in Procs |-> FALSE]
    /\ unlinked = [p \in Procs |-> {}]
    /\ pre = [cache |-> loaded_models, disk |-> disk]
    /\ lastRet = NoCall
    /\ after = [p \in Procs |-> NoCall]

\* no inspection is under way
NoCheckpoint ==
    [keys |-> {}, architecture |-> "", num_classes |-> 0, state_keys |-> {},
     features |-> <<>>, head |-> <<>>, out |-> <<>>]

NoModel == [backbone |-> "", tensors |-> <<>>]
NoEntry == [architecture |-> "", backbone |-> ""]

InspectionIdle ==
    /\ checkpoint = NoCheckpoint
    /\ classifier = "CarModelClassifier"
    /\ arch_name = ""
    /\ hidden_size = 0
    /\ ipc = "idle"
    /\ model = NoModel
    /\ entry = NoEntry

\* no predict is under way
InferenceIdle ==
    /\ probabilities = <<>>
    /\ top_k = 1
    /\ idx_to_model = {}
    /\ top_indices = <<>>
    /\ predictions = <<>>
    /\ rpc = "idle"

\* the API modules whose globals set_classifiers fills
Modules == {"health", "predict"}

\* what CarModelClassifier.predict returned
NoModelResult == [success |-> FALSE, error |-> "", escaped |-> FALSE]

NoRequest ==
    [stage |-> "none", predicted_brand |-> NoBrand, cleanup_after |-> FALSE,
     calls0 |-> 0, model_result |-> NoModelResult]

Response(e, code, st) ==
    [endpoint |-> e, status_code |-> code, status |-> st,
     found |-> [brand |-> FALSE, car |-> FALSE],
     cleanup_after |-> FALSE, model_success |-> FALSE, cleanup_performed |-> FALSE,
     selected_brand |-> NoBrand]
NoResponse == Response("", 0, "")

\* no request has been served and no classifier injected
ApiIdle ==
    /\ brand_classifier = [m \in Modules |-> FALSE]
    /\ car_model_classifier = [m \in Modules |-> FALSE]
    /\ AUTO_CLEANUP_MODELS = FALSE
    /\ request = NoRequest
    /\ response = NoResponse

\* the serial schedule starts from every such state; the free schedule from a
\* fresh deployment: an empty models directory, Audi downloadable, Audi Sport
\* only as a legacy file
SeqInit == InitCommon /\ InspectionIdle /\ InferenceIdle /\ ApiIdle /\ serial = TRUE
Init ==
    /\ InitCommon
    /\ InspectionIdle
    /\ InferenceIdle
    /\ ApiIdle
    /\ serial = FALSE
    /\ \A f \in ModelsPaths : disk[f] = NoFile
    /\ \A n \in LegacyNames : Exists(disk, LegacyPath(n)) => IsPrefix(normalize_brand_name(AudiSport), n)
    /\ drive_ids = [b \in Brands |-> IF b = Audi THEN "1AbC" ELSE ""]

(***************************************************************************)
(* Call and return                                                         *)
(***************************************************************************)
Busy(q) == pc[q] # "idle"

\* the callers whose call on brand b is in progress
Concurrent(p, b) == {q \in Procs \ {p} : Busy(q) /\ brand[q] = b}

Begin(p, o, b, first) ==
    /\ pc[p] = "idle"
    /\ serial => p = 1
    /\ pc' = [pc EXCEPT ![p] = first]
    /\ op' = [op EXCEPT ![p] = o]
    /\ brand' = [brand EXCEPT ![p] = b]
    /\ result' = [result EXCEPT ![p] = NoResult]
    /\ attempted' = [attempted EXCEPT ![p] = FALSE]
    /\ built' = [built EXCEPT ![p] = FALSE]
    /\ unlinked' = [unlinked EXCEPT ![p] = {}]
    /\ overlap' = [q \in Procs |->
                      IF q = p THEN Concurrent(p, b)
                      ELSE IF q \in Concurrent(p, b) THEN overlap[q] \cup {p}
                      ELSE overlap[q] \ {p}]
    /\ pre' = IF serial THEN [cache |-> loaded_models, disk |-> disk] ELSE pre
    /\ after' = IF serial THEN [after EXCEPT ![p] = lastRet] ELSE after
    /\ UNCHANGED <<shared, config, inspection, inference, api, locals, lastRet>>

\* the operation of p returns r; its locals die with the frame
Return(p, r) ==
    /\ pc' = [pc EXCEPT ![p] = "idle"]
    /\ result' = [result EXCEPT ![p] = r]
    /\ model_path' = [model_path EXCEPT ![p] = NoPath]
    /\ dl_path' = [dl_path EXCEPT ![p] = NoPath]
    /\ removed' = [removed EXCEPT ![p] = FALSE]
    /\ brands_in_cache' = [brands_in_cache EXCEPT ![p] = {}]
    /\ key' = [key EXCEPT ![p] = NoBrand]
    /\ n_in_cache' = [n_in_cache EXCEPT ![p] = 0]
    /\ listing' = [listing EXCEPT ![p] = {}]
    /\ cur' = [cur EXCEPT ![p] = NoPath]
    /\ count' = [count EXCEPT ![p] = 0]
    /\ lastRet' = IF serial
                  THEN [op |-> op[p], brand |-> brand[p], res |-> r, was |-> pre.cache]
                  ELSE lastRet
    /\ UNCHANGED <<op, brand, ticket, calls, config, inspection, inference, api, overlap, pre, after>>

Goto(p, next) == pc' = [pc EXCEPT ![p] = next]

(***************************************************************************)
(* GetOrLoad: CarModelClassifier._load_brand_model                         *)
(***************************************************************************)
CallLoad(p, b) ==
    /\ calls < MaxCalls
    /\ Begin(p, "GetOrLoad", b, "L_check")
    /\ calls' = calls + 1
    /\ ticket' = [ticket EXCEPT ![p] = calls + 1]

\* a slip: the cache is not consulted
LoadCheckMiss(p) ==
    /\ pc[p] = "L_check"
    /\ Goto(p, "L_resolve")
    /\ UNCHANGED <<shared, config, inspection, inference, api, locals, op, brand, result, ticket, calls, history>>

\* line 213: if brand in self.loaded_models
LoadCheck(p) ==
    /\ pc[p] = "L_check"
    /\ Goto(p, IF InCache(brand[p], loaded_models) THEN "L_hit" ELSE "L_resolve")
    /\ UNCHANGED <<shared, config, inspection, inference, api, locals, op, brand, result, ticket, calls, history>>

\* line 215: return self.loaded_models[brand]
LoadHit(p) ==
    /\ pc[p] = "L_hit"
    /\ Return(p, IF InCache(brand[p], loaded_models)
                  THEN Entry(loaded_models[brand[p]]) ELSE Raise("KeyError"))
    /\ UNCHANGED <<shared, attempted, built, unlinked>>

\* line 217: model_path = self._get_model_path(brand)
LoadResolve(p) ==
    /\ pc[p] = "L_resolve"
    /\ \E path \in GetModelPath(brand[p], disk, legacy_exists) :
          model_path' = [model_path EXCEPT ![p] = path]
    /\ Goto(p, "L_exists")
    /\ UNCHANGED <<shared, config, inspection, inference, api, dl_path, removed, brands_in_cache, key, n_in_cache,
                   listing, cur, count, op, brand, result, ticket, calls, history>>

\* line 220: if not model_path.exists()
LoadExists(p) ==
    /\ pc[p] = "L_exists"
    /\ Goto(p, IF Exists(disk, model_path[p]) THEN "L_torch" ELSE "D_resolve")
    /\ UNCHANGED <<shared, config, inspection, inference, api, locals, op, brand, result, ticket, calls, history>>

\* _download_brand_model, line 93: model_path = self._get_model_path(brand)
DownloadResolve(p) ==
    /\ pc[p] = "D_resolve"
    /\ \E path \in GetModelPath(brand[p], disk, legacy_exists) :
          dl_path' = [dl_path EXCEPT ![p] = path]
    /\ Goto(p, "D_exists")
    /\ UNCHANGED <<shared, config, inspection, inference, api, model_path, removed, brands_in_cache, key, n_in_cache,
                   listing, cur, count, op, brand, result, ticket, calls, history>>

\* _download_brand_model, lines 95-108: found after all, or no url for the brand
\* (then line 222 raises), or go and download
DownloadExists(p) ==
    /\ pc[p] = "D_exists"
    /\ IF Exists(disk, dl_path[p])
       THEN /\ Goto(p, "L_torch")
            /\ UNCHANGED <<locals, result, lastRet>>
       ELSE IF GetBrandModelUrl(brand[p], drive_ids) = <<>>
       THEN Return(p, Raise("not_configured"))
       ELSE /\ Goto(p, "D_download")
            /\ UNCHANGED <<locals, result, lastRet>>
    /\ UNCHANGED <<shared, config, inspection, inference, api, op, brand, ticket, calls, overlap, attempted, built,
                   unlinked, pre, after>>

\* a slip: a failed transfer leaves a truncated file at the destination
TransferPartial(d, dest, got) == [d EXCEPT ![dest] = IF got = NoFile THEN "corrupt" ELSE got]

\* gdown.download(drive_url, str(destination)): the file is at the destination
\* when the transfer succeeded, and nothing is when it failed
Transfer(d, dest, got) == IF got = NoFile THEN d ELSE [d EXCEPT ![dest] = got]

\* ModelDownloader.download_from_drive (line 110): False on a placeholder url or
\* when gdown raises or leaves no file (then line 222 raises); otherwise the
\* file is at the destination, whatever it holds
Download(p) ==
    /\ pc[p] = "D_download"
    /\ IF UrlNotConfigured(GetBrandModelUrl(brand[p], drive_ids))
       THEN /\ Return(p, Raise("not_configured"))
            /\ UNCHANGED <<shared, attempted>>
       ELSE /\ attempted' = [attempted EXCEPT ![p] = serial]
            /\ \E got \in Contents \cup {NoFile} :
                  /\ disk' = Transfer(disk, dl_path[p], got)
                  /\ IF got = NoFile
                     THEN Return(p, Raise("download_failed"))
                     ELSE /\ Goto(p, "L_torch")
                          /\ UNCHANGED <<locals, result, lastRet>>
            /\ UNCHANGED <<loaded_models, backing>>
    /\ UNCHANGED <<config, inspection, inference, api, op, brand, ticket, calls, overlap, built, unlinked, pre, after>>

\* a slip: the entry is cached before the weights are loaded, so a failing
\* load_state_dict leaves it behind
TorchLoadCachedEarly(p) ==
    /\ pc[p] = "L_torch"
    /\ IF ~Exists(disk, model_path[p])
       THEN Return(p, Raise("missing_file")) /\ UNCHANGED <<built, shared>>
       ELSE IF disk[model_path[p]] \in {"corrupt", "empty"}
       THEN Return(p, Raise("corrupt")) /\ UNCHANGED <<built, shared>>
       ELSE /\ built' = [built EXCEPT ![p] = serial]
            /\ IF disk[model_path[p]] = "mismatch"
               THEN /\ Return(p, Raise("mismatch"))
                    /\ loaded_models' = [loaded_models EXCEPT ![brand[p]] = ticket[p]]
                    /\ UNCHANGED <<backing, disk>>
               ELSE /\ Goto(p, "L_install")
                    /\ UNCHANGED <<locals, result, lastRet, shared>>
    /\ UNCHANGED <<config, inspection, inference, api, op, brand, ticket, calls, overlap, attempted, unlinked,
                   pre, after>>

\* lines 227-257: torch.load, the inspection, _create_model_architecture and
\* the strict load_state_dict
TorchLoad(p) ==
    /\ pc[p] = "L_torch"
    /\ IF ~Exists(disk, model_path[p])
       THEN Return(p, Raise("missing_file")) /\ UNCHANGED built
       ELSE IF disk[model_path[p]] \in {"corrupt", "empty"}
       THEN Return(p, Raise("corrupt")) /\ UNCHANGED built
       ELSE /\ built' = [built EXCEPT ![p] = serial]
            /\ IF disk[model_path[p]] = "mismatch"
               THEN Return(p, Raise("mismatch"))
               ELSE /\ Goto(p, "L_install")
                    /\ UNCHANGED <<locals, result, lastRet>>
    /\ UNCHANGED <<shared, config, inspection, inference, api, op, brand, ticket, calls, overlap, attempted, unlinked,
                   pre, after>>

\* line 260: self.loaded_models[brand] = {...}
Install(p) ==
    /\ pc[p] = "L_install"
    /\ loaded_models' = [loaded_models EXCEPT ![brand[p]] = ticket[p]]
    /\ backing' = [backing EXCEPT ![brand[p]] = model_path[p]]
    /\ Goto(p, "L_return")
    /\ UNCHANGED <<disk, config, inspection, inference, api, locals, op, brand, result, ticket, calls, history>>

\* line 270: return self.loaded_models[brand]
LoadReturn(p) ==
    /\ pc[p] = "L_return"
    /\ Return(p, IF InCache(brand[p], loaded_models)
                  THEN Entry(loaded_models[brand[p]]) ELSE Raise("KeyError"))
    /\ UNCHANGED <<shared, attempted, built, unlinked>>

(***************************************************************************)
(* Evict: CarModelClassifier.cleanup_brand_model                           *)
(***************************************************************************)
CallEvict(p, b) ==
    /\ Begin(p, "Evict", b, "E_check")
    /\ UNCHANGED <<ticket, calls>>

\* line 366: if brand in self.loaded_models
EvictCheck(p) ==
    /\ pc[p] = "E_check"
    /\ Goto(p, IF InCache(brand[p], loaded_models) THEN "E_del" ELSE "E_resolve")
    /\ UNCHANGED <<shared, config, inspection, inference, api, locals, op, brand, result, ticket, calls, history>>

\* lines 367-369: del self.loaded_models[brand]; a KeyError (the entry went
\* away since the test) is caught at line 378 and the call returns False
EvictDel(p) ==
    /\ pc[p] = "E_del"
    /\ IF InCache(brand[p], loaded_models)
       THEN /\ loaded_models' = DelEntry(loaded_models, brand[p])
            /\ backing' = [backing EXCEPT ![brand[p]] = NoPath]
            /\ removed' = [removed EXCEPT ![p] = TRUE]
            /\ Goto(p, "E_resolve")
            /\ UNCHANGED <<model_path, dl_path, brands_in_cache, key, n_in_cache,
                           listing, cur, count, result, lastRet>>
       ELSE /\ Return(p, Bool(FALSE))
            /\ UNCHANGED <<loaded_models, backing>>
    /\ UNCHANGED <<disk, config, inspection, inference, api, op, brand, ticket, calls, overlap, attempted, built,
                   unlinked, pre, after>>

\* line 372: model_path = self._get_model_path(brand)
EvictResolve(p) ==
    /\ pc[p] = "E_resolve"
    /\ \E path \in GetModelPath(brand[p], disk, legacy_exists) :
          model_path' = [model_path EXCEPT ![p] = path]
    /\ Goto(p, "E_unlink")
    /\ UNCHANGED <<shared, config, inspection, inference, api, dl_path, removed, brands_in_cache, key, n_in_cache,
                   listing, cur, count, op, brand, result, ticket, calls, history>>

\* a slip: True is answered for a file that is there, and it is not unlinked
DeleteFileKept(d, path) == d

\* FileUtils.delete_file: True when the file was there and is unlinked.  A file
\* that goes away between exists() and unlink() makes unlink raise, which is
\* caught and gives False like a file that was not there: one step covers both.
DeleteFile(d, path) == IF Exists(d, path) THEN [d EXCEPT ![path] = NoFile] ELSE d

\* lines 373-376: if FileUtils.delete_file(model_path): removed = True; return removed
EvictUnlink(p) ==
    /\ pc[p] = "E_unlink"
    /\ disk' = DeleteFile(disk, model_path[p])
    /\ unlinked' = [unlinked EXCEPT ![p] = @ \cup {f \in {model_path[p]} : Exists(disk, f)}]
    /\ Return(p, Bool(removed[p] \/ Exists(disk, model_path[p])))
    /\ UNCHANGED <<loaded_models, backing, attempted, built>>

(***************************************************************************)
(* EvictAll: CarModelClassifier.cleanup_all_models                         *)
(***************************************************************************)
CallEvictAll(p) ==
    /\ Begin(p, "EvictAll", NoBrand, "A_keys")
    /\ UNCHANGED <<ticket, calls>>

\* line 391: brands_in_cache = list(self.loaded_models.keys())
AllKeys(p) ==
    /\ pc[p] = "A_keys"
    /\ brands_in_cache' = [brands_in_cache EXCEPT ![p] =
                              {b \in Brands : InCache(b, loaded_models)}]
    /\ n_in_cache' = [n_in_cache EXCEPT ![p] =
                         Cardinality({b \in Brands : InCache(b, loaded_models)})]
    /\ Goto(p, "A_check")
    /\ UNCHANGED <<shared, config, inspection, inference, api, model_path, dl_path, removed, key, listing, cur, count,
                   op, brand, result, ticket, calls, history>>

\* lines 392-393: the next brand of the list, and the test brand in self.loaded_models
AllCheck(p) ==
    /\ pc[p] = "A_check"
    /\ IF brands_in_cache[p] = {}
       THEN /\ Goto(p, "A_list")
            /\ UNCHANGED <<brands_in_cache, key>>
       ELSE \E b \in brands_in_cache[p] :
              /\ brands_in_cache' = [brands_in_cache EXCEPT ![p] = @ \ {b}]
              /\ key' = [key EXCEPT ![p] = b]
              /\ Goto(p, IF InCache(b, loaded_models) THEN "A_del" ELSE "A_check")
    /\ UNCHANGED <<shared, config, inspection, inference, api, model_path, dl_path, removed, n_in_cache, listing, cur,
                   count, op, brand, result, ticket, calls, history>>

\* line 394: del self.loaded_models[brand]; a KeyError is caught at line 406
\* and the call returns the two zero counts
AllDel(p) ==
    /\ pc[p] = "A_del"
    /\ IF InCache(key[p], loaded_models)
       THEN /\ loaded_models' = DelEntry(loaded_models, key[p])
            /\ backing' = [backing EXCEPT ![key[p]] = NoPath]
            /\ Goto(p, "A_check")
            /\ UNCHANGED <<locals, result, lastRet>>
       ELSE /\ Return(p, Counts(0, 0))
            /\ UNCHANGED <<loaded_models, backing>>
    /\ UNCHANGED <<disk, config, inspection, inference, api, op, brand, ticket, calls, overlap, attempted, built,
                   unlinked, pre, after>>

\* a slip: the cache is measured after it was emptied
AllResultAfter(p) == Counts(Cardinality({b \in Brands : InCache(b, loaded_models)}), count[p])

\* lines 401-404: removed_from_cache is len(brands_in_cache), removed_from_disk
\* the count of clear_directory
AllResult(p) == Counts(n_in_cache[p], count[p])

\* FileUtils.clear_directory, line 108: directory.glob("*.pth") lists the
\* models directory once
AllList(p) ==
    /\ pc[p] = "A_list"
    /\ listing' = [listing EXCEPT ![p] = {f \in ModelsPaths : Exists(disk, f)}]
    /\ Goto(p, "A_isfile")
    /\ UNCHANGED <<shared, config, inspection, inference, api, model_path, dl_path, removed, brands_in_cache, key,
                   n_in_cache, cur, count, op, brand, result, ticket, calls, history>>

\* clear_directory, lines 108-109: the next file of the listing and is_file();
\* at the end of the listing lines 399-404 return the two counts
AllIsFile(p) ==
    /\ pc[p] = "A_isfile"
    /\ IF listing[p] = {}
       THEN Return(p, AllResult(p))
       ELSE /\ \E f \in listing[p] :
                 /\ listing' = [listing EXCEPT ![p] = @ \ {f}]
                 /\ cur' = [cur EXCEPT ![p] = f]
                 /\ Goto(p, IF Exists(disk, f) THEN "A_unlink" ELSE "A_isfile")
            /\ UNCHANGED <<model_path, dl_path, removed, brands_in_cache, key, n_in_cache,
                           count, result, lastRet>>
    /\ UNCHANGED <<shared, config, inspection, inference, api, op, brand, ticket, calls, overlap, attempted, built,
                   unlinked, pre, after>>

\* clear_directory, lines 110-116: unlink and count; when the file is gone since
\* is_file() unlink raises, the loop is left and the count so far is returned
AllUnlink(p) ==
    /\ pc[p] = "A_unlink"
    /\ IF Exists(disk, cur[p])
       THEN /\ disk' = DeleteFile(disk, cur[p])
            /\ unlinked' = [unlinked EXCEPT ![p] = @ \cup {cur[p]}]
            /\ count' = [count EXCEPT ![p] = @ + 1]
            /\ Goto(p, "A_isfile")
            /\ UNCHANGED <<model_path, dl_path, removed, brands_in_cache, key, n_in_cache,
                           listing, cur, result, lastRet>>
       ELSE /\ Return(p, AllResult(p))
            /\ UNCHANGED <<disk, unlinked>>
    /\ UNCHANGED <<loaded_models, backing, config, inspection, inference, api, op, brand, ticket, calls, overlap,
                   attempted, built, pre, after>>

(***************************************************************************)
(* Snapshot: CarModelClassifier.get_loaded_models_info                     *)
(***************************************************************************)
\* a set as a list; the order of a dict and of a glob is not modelled
RECURSIVE SetToSeq(_)
SetToSeq(S) ==
    IF S = {} THEN <<>>
    ELSE LET x == CHOOSE y \in S : TRUE IN <<x>> \o SetToSeq(S \ {x})

\* line 430: model_file.stem.replace('_efficientnet_b3', ''), every occurrence
RECURSIVE StemBrand(_)
StemBrand(n) ==
    IF n = <<>> THEN <<>>
    ELSE IF IsPrefix(<<"_", "efficientnet", "_", "b3">>, n)
    THEN StemBrand(SubSeq(n, 5, Len(n)))
    ELSE <<Head(n)>> \o StemBrand(Tail(n))

\* an element of models_info (size_mb left out)
Item(b, m) == [brand |-> b, in_memory |-> m]

\* lines 420-425: one 'loaded' item for each key of self.loaded_models
CachedItems(lm) == SetToSeq({Item(b, TRUE) : b \in {c \in Brands : InCache(c, lm)}})

\* lines 428-438: one 'on_disk' item for each *.pth file of the models
\* directory whose stem, less '_efficientnet_b3', is not a key of the cache
DiskItems(files, lm) ==
    SetToSeq({Item(StemBrand(f[2]), FALSE) :
                 f \in {g \in files : ~(StemBrand(g[2]) \in Brands /\ InCache(StemBrand(g[2]), lm))}})

CallSnapshot(p) ==
    /\ Begin(p, "Snapshot", NoBrand, "S_cache")
    /\ UNCHANGED <<ticket, calls>>

\* lines 417-425: models_info = [] and the loop over self.loaded_models
SnapCache(p) ==
    /\ pc[p] = "S_cache"
    /\ result' = [result EXCEPT ![p] = Info(0, 0, CachedItems(loaded_models))]
    /\ Goto(p, "S_disk")
    /\ UNCHANGED <<shared, config, inspection, inference, api, locals, op, brand, ticket, calls, history>>

\* lines 428-444: list_files_by_extension, the loop over the files, the totals
SnapDisk(p) ==
    /\ pc[p] = "S_disk"
    /\ LET disk_models == {f \in ModelsPaths : Exists(disk, f)}
       IN  Return(p, Info(Cardinality({b \in Brands : InCache(b, loaded_models)}),
                          Cardinality(disk_models),
                          result[p].models \o DiskItems(disk_models, loaded_models)))
    /\ UNCHANGED <<shared, attempted, built, unlinked>>

(***************************************************************************)
(* The inspection of a checkpoint: _detect_model_architecture and          *)
(* _detect_classifier_hidden_size, which CarModelClassifier and            *)
(* BrandClassifier both define.  A tensor is its shape; a shape is the     *)
(* list of its dimensions, the empty list for a tensor of no dimension.    *)
(***************************************************************************)
Classifiers == {"CarModelClassifier", "BrandClassifier"}
Tags == {"efficientnet_b0", "efficientnet_b3", "resnet50"}
FeatureShapes == {<<>>, <<1280, 320>>, <<1536, 384>>, <<1408, 352>>}
HeadShapes == {<<>>, <<256, 1280>>, <<512, 1536>>}
OutShapes == {<<3, 256>>, <<3, 512>>}
ClassCounts == {0, 3}

\* num_classes is checkpoint.get('num_classes', 0): 0 stands for a missing key
\* too.  The three tensors stand for the backbone, the first and the last
\* linear layer of the head.
Checkpoints ==
    [keys : SUBSET {"architecture", "model_state_dict"},
     architecture : Tags,
     num_classes : ClassCounts,
     state_keys : SUBSET {"features.8.0.weight", "classifier.1.weight", "classifier.5.weight"},
     features : FeatureShapes,
     head : HeadShapes,
     out : OutShapes]

\* what a detection function gives: a value, or the IndexError of shape[0]
Value(v) == [raised |-> FALSE, value |-> v]
IndexError(v) == [raised |-> TRUE, value |-> v]

\* checkpoint.get('model_state_dict', {}), as the set of its keys
StateDict(ck) == IF "model_state_dict" \in ck.keys THEN ck.state_keys ELSE {}

\* a slip: every classifier falls back to efficientnet_b0
DefaultArchitectureB0(c) == "efficientnet_b0"

\* the fallback of _detect_model_architecture: car_model_classifier.py:140,
\* brand_classifier.py:121
DefaultArchitecture(c) ==
    IF c = "CarModelClassifier" THEN "efficientnet_b0" ELSE "efficientnet_b3"

\* a slip: the shape of the backbone tensor is looked at before the tag
detect_by_shape_first(c, ck) ==
    IF "features.8.0.weight" \in StateDict(ck) /\ ck.features # <<>>
       /\ ck.features[1] \in {1280, 1536}
    THEN Value(IF ck.features[1] = 1280 THEN "efficientnet_b0" ELSE "efficientnet_b3")
    ELSE IF "architecture" \in ck.keys THEN Value(ck.architecture)
    ELSE Value(DefaultArchitecture(c))

\* _detect_model_architecture
detect_model_architecture(c, ck) ==
    IF "architecture" \in ck.keys THEN Value(ck.architecture)
    ELSE IF "features.8.0.weight" \in StateDict(ck)
    THEN IF ck.features = <<>> THEN IndexError("")
         ELSE IF ck.features[1] = 1280 THEN Value("efficientnet_b0")
         ELSE IF ck.features[1] = 1536 THEN Value("efficientnet_b3")
         ELSE Value(DefaultArchitecture(c))
    ELSE Value(DefaultArchitecture(c))

\* a slip: the fallback is the hidden size of the old models
detect_hidden_size_old_default(ck) ==
    IF "classifier.1.weight" \in StateDict(ck)
    THEN IF ck.head = <<>> THEN IndexError(0) ELSE Value(ck.head[1])
    ELSE Value(256)

\* _detect_classifier_hidden_size
detect_classifier_hidden_size(ck) ==
    IF "classifier.1.weight" \in StateDict(ck)
    THEN IF ck.head = <<>> THEN IndexError(0) ELSE Value(ck.head[1])
    ELSE Value(512)

\* a checkpoint has been deserialised by one of the two classifiers
InferInit ==
    /\ InitCommon
    /\ InferenceIdle
    /\ ApiIdle
    /\ serial = TRUE
    /\ legacy_exists = FALSE
    /\ drive_ids = [b \in Brands |-> ""]
    /\ \A f \in Paths : disk[f] = NoFile
    /\ checkpoint \in Checkpoints
    /\ classifier \in Classifiers
    /\ arch_name = ""
    /\ hidden_size = 0
    /\ ipc = "loaded"
    /\ model = NoModel
    /\ entry = NoEntry

\* car_model_classifier.py:245, brand_classifier.py:72:
\* arch_name = self._detect_model_architecture(checkpoint)
DetectArchitecture ==
    /\ ipc = "loaded"
    /\ LET r == detect_model_architecture(classifier, checkpoint)
       IN  /\ arch_name' = r.value
           /\ ipc' = IF r.raised THEN "arch_raised" ELSE "arch_done"
    /\ UNCHANGED <<shared, config, locals, control, history, inference, api, checkpoint, classifier,
                   hidden_size, model, entry>>

\* car_model_classifier.py:249, brand_classifier.py:76:
\* hidden_size = self._detect_classifier_hidden_size(checkpoint)
DetectHiddenSize ==
    /\ ipc = "arch_done"
    /\ LET r == detect_classifier_hidden_size(checkpoint)
       IN  /\ hidden_size' = r.value
           /\ ipc' = IF r.raised THEN "hidden_raised" ELSE "done"
    /\ UNCHANGED <<shared, config, locals, control, history, inference, api, checkpoint, classifier,
                   arch_name, model, entry>>

\* the else branch of _create_model_architecture: car_model_classifier.py:183-184,
\* brand_classifier.py:164-165
FallbackBackbone(c) ==
    IF c = "CarModelClassifier" THEN "efficientnet_b0" ELSE "efficientnet_b3"

\* the backbone _create_model_architecture builds for arch_name
Backbone(c, arch) ==
    IF arch \in {"efficientnet_b0", "efficientnet_b3"} THEN arch ELSE FallbackBackbone(c)

\* model.classifier[1].in_features of the torchvision backbone
NumFeatures(bb) == IF bb = "efficientnet_b0" THEN 1280 ELSE 1536

\* the parameters of the built network: name -> shape
Parameters(bb, hidden, classes) ==
    [k \in {"features.8.0.weight", "classifier.1.weight", "classifier.5.weight"} |->
        CASE k = "features.8.0.weight" ->
                 IF bb = "efficientnet_b0" THEN <<1280, 320>> ELSE <<1536, 384>>
          [] k = "classifier.1.weight" -> <<hidden, NumFeatures(bb)>>
          [] k = "classifier.5.weight" -> <<classes, hidden>>]

\* _create_model_architecture(arch_name, num_classes, hidden_size)
create_model_architecture(c, arch, classes, hidden) ==
    [backbone |-> Backbone(c, arch),
     tensors |-> Parameters(Backbone(c, arch), hidden, classes)]

\* checkpoint['model_state_dict'] as name -> shape
Tensors(ck) ==
    [k \in ck.state_keys |->
        CASE k = "features.8.0.weight" -> ck.features
          [] k = "classifier.1.weight" -> ck.head
          [] k = "classifier.5.weight" -> ck.out]

\* a slip: strict=False, tensors the network has no parameter for are skipped
\* and parameters the checkpoint lacks keep their initial values
LoadsLenient(ck, net) ==
    /\ "model_state_dict" \in ck.keys
    /\ \A k \in ck.state_keys \cap DOMAIN net.tensors : Tensors(ck)[k] = net.tensors[k]

\* model.load_state_dict(checkpoint['model_state_dict'], strict=True) returns:
\* the key is there (no KeyError), the names are those of the parameters, and
\* each tensor has the shape of its parameter
Loads(ck, net) ==
    /\ "model_state_dict" \in ck.keys
    /\ ck.state_keys = DOMAIN net.tensors
    /\ \A k \in ck.state_keys : Tensors(ck)[k] = net.tensors[k]

\* car_model_classifier.py:252, brand_classifier.py:79
CreateModel ==
    /\ ipc = "done"
    /\ model' = create_model_architecture(classifier, arch_name, checkpoint.num_classes,
                                          hidden_size)
    /\ ipc' = "created"
    /\ UNCHANGED <<shared, config, locals, control, history, inference, api, checkpoint, classifier,
                   arch_name, hidden_size, entry>>

\* car_model_classifier.py:255, brand_classifier.py:82; a failure is re-raised
\* by the except clause (lines 272-274, 89-91)
LoadStateDict ==
    /\ ipc = "created"
    /\ ipc' = IF Loads(checkpoint, model) THEN "weights_loaded" ELSE "load_raised"
    /\ UNCHANGED <<shared, config, locals, control, history, inference, api, checkpoint, classifier,
                   arch_name, hidden_size, model, entry>>

\* car_model_classifier.py:260-265: the dict cached for the brand, with
\* 'architecture': arch_name; brand_classifier.py:83-84: self.model is kept
CacheEntry ==
    /\ ipc = "weights_loaded"
    /\ entry' = [architecture |-> IF classifier = "CarModelClassifier" THEN arch_name ELSE "",
                 backbone |-> model.backbone]
    /\ ipc' = "cached"
    /\ UNCHANGED <<shared, config, locals, control, history, inference, api, checkpoint, classifier,
                   arch_name, hidden_size, model>>

InferNext ==
    \/ DetectArchitecture
    \/ DetectHiddenSize
    \/ CreateModel
    \/ LoadStateDict
    \/ CacheEntry

InferSpec == InferInit /\ [][InferNext]_vars

(***************************************************************************)
(* predict, after the forward pass: CarModelClassifier.predict lines       *)
(* 304-350, BrandClassifier.predict lines 213-237                          *)
(***************************************************************************)
MaxClasses == 3
MaxTopK == 10

\* softmax keeps the order and the ties of the raw scores; the values stand
\* for the probabilities, the last list for the scores 2.0 5.0 0.1 5.0 1.0
Scores == {1, 20, 50}
ScoreLists == UNION {[1..n -> Scores] : n \in 0..MaxClasses} \cup {<<20, 50, 1, 50, 10>>}

\* a key of the index map: the class index itself, or the text that spells it
KeyTypes == {"int", "str"}
Key(t, i) == <<t, i>>
Maps == {{Key(t, i) : i \in I} : t \in KeyTypes, I \in SUBSET (0..MaxClasses)}

\* the value the map holds for class i, and the default of .get
Name(i) == <<"class", i>>
Unknown(i) == <<"Unknown_", i>>

Min(a, b) == IF a < b THEN a ELSE b
Indices(x) == 0..(Len(x) - 1)

\* torch.topk(x, k)[1] for a row x of at least k values: the indices of k
\* largest values, by descending value; torch fixes neither the order among
\* equal values nor which of the equal values at the cut are taken
topk(x, k) ==
    {s \in [1..k -> Indices(x)] :
        /\ \A i, j \in 1..k : i < j => (s[i] # s[j] /\ x[s[i] + 1] >= x[s[j] + 1])
        /\ \A c \in Indices(x) \ {s[i] : i \in 1..k} :
              \A i \in 1..k : x[c + 1] <= x[s[i] + 1]}

\* the name given to class_idx: car_model_classifier.py:316-319 looks up the
\* text when the first key is text; brand_classifier.py:223 looks up the number
Lookup(c, keys, class_idx) ==
    LET t == IF c = "CarModelClassifier" /\ (\E i \in 0..MaxClasses : Key("str", i) \in keys)
             THEN "str" ELSE "int"
    IN  IF Key(t, class_idx) \in keys THEN Name(class_idx) ELSE Unknown(class_idx)

\* where an exception of the method ends: CarModelClassifier.predict returns
\* success False (lines 345-350), BrandClassifier.predict re-raises (235-237)
Caught(c) == IF c = "CarModelClassifier" THEN "failed" ELSE "raised"

\* a forward pass of a loaded model has given its probabilities
RunInit ==
    /\ InitCommon
    /\ ApiIdle
    /\ serial = TRUE
    /\ legacy_exists = FALSE
    /\ drive_ids = [b \in Brands |-> ""]
    /\ \A f \in Paths : disk[f] = NoFile
    /\ checkpoint = NoCheckpoint
    /\ classifier \in Classifiers
    /\ arch_name = ""
    /\ hidden_size = 0
    /\ ipc = "idle"
    /\ model = NoModel
    /\ entry = NoEntry
    /\ probabilities \in ScoreLists
    /\ top_k \in 1..MaxTopK
    /\ idx_to_model \in Maps
    /\ top_indices = <<>>
    /\ predictions = <<>>
    /\ rpc = "forward"

\* car_model_classifier.py:307, brand_classifier.py:216:
\* torch.topk(probabilities, min(top_k, len(idx_to_model))), which raises
\* when k is more than the number of values
TopK ==
    /\ rpc = "forward"
    /\ LET k == Min(top_k, Cardinality(idx_to_model))
       IN  IF k > Len(probabilities)
           THEN /\ rpc' = Caught(classifier)
                /\ UNCHANGED top_indices
           ELSE /\ top_indices' \in topk(probabilities, k)
                /\ rpc' = "selected"
    /\ UNCHANGED <<shared, config, locals, control, history, inspection, api, probabilities,
                   top_k, idx_to_model, predictions>>

\* car_model_classifier.py:310-343, brand_classifier.py:219-233: the list, and
\* the return; predictions[0] of brand_classifier.py:232 raises on an empty list
Format ==
    /\ rpc = "selected"
    /\ LET ps == [i \in 1..Len(top_indices) |->
                    [rank |-> i,
                     class_idx |-> top_indices[i],
                     name |-> Lookup(classifier, idx_to_model, top_indices[i]),
                     confidence |-> probabilities[top_indices[i] + 1]]]
       IN  /\ predictions' = ps
           /\ rpc' = IF classifier = "BrandClassifier" /\ Len(top_indices) = 0
                     THEN "raised" ELSE "returned"
    /\ UNCHANGED <<shared, config, locals, control, history, inspection, api, probabilities,
                   top_k, idx_to_model, top_indices>>

RunNext ==
    \/ TopK
    \/ Format

RunSpec == RunInit /\ [][RunNext]_vars

(***************************************************************************)
(* The API: health_check (api/health.py) and predict_car (api/predict.py)  *)
(* over CarModelClassifier.predict and cleanup_brand_model, one request    *)
(* at a time                                                               *)
(***************************************************************************)
\* health.py:21-25, predict.py:23-27: def set_classifiers(brand_clf, car_clf)
set_classifiers(m, brand_clf, car_clf) ==
    /\ request.stage = "none"
    /\ brand_classifier' = [brand_classifier EXCEPT ![m] = brand_clf]
    /\ car_model_classifier' = [car_model_classifier EXCEPT ![m] = car_clf]
    /\ UNCHANGED <<shared, config, locals, control, history, inspection, inference,
                   AUTO_CLEANUP_MODELS, request, response>>

\* a slip: unhealthy only when both are missing
NotLoadedBoth(b, c) == ~b /\ ~c

\* health.py:54, predict.py:118:
\* brand_classifier is None or car_model_classifier is None
NotLoaded(b, c) == ~b \/ ~c

\* health.py:51-73
health_check ==
    /\ request.stage = "none"
    /\ LET b == brand_classifier["health"]
           c == car_model_classifier["health"]
           r == IF NotLoaded(b, c)
                THEN Response("health", 503, "unhealthy")
                ELSE Response("health", 200, "healthy")
       IN  response' = [r EXCEPT !.found = [brand |-> b, car |-> c]]
    /\ UNCHANGED <<shared, config, locals, control, history, inspection, inference,
                   brand_classifier, car_model_classifier, AUTO_CLEANUP_MODELS, request>>

\* what stops predict_car before the model stage: a file that is no image
\* (lines 125-129, 135-139, 185-187) or a failing brand stage (lines 150, 191-193)
Faults == {"none", "bad_request", "brand_stage"}

\* predict.py:118-153: the guard, the validations and the brand stage (the
\* hint, or the first brand of brand_classifier.predict)
PredictCarBegin(b, cleanup, fault) ==
    /\ request.stage = "none"
    /\ pc[1] = "idle"
    /\ calls < MaxCalls
    /\ LET hb == brand_classifier["predict"]
           hc == car_model_classifier["predict"]
           stop(code) == /\ response' = [Response("predict", code, "") EXCEPT
                                            !.found = [brand |-> hb, car |-> hc]]
                         /\ UNCHANGED request
       IN  IF NotLoaded(hb, hc) THEN stop(503)
           ELSE IF fault = "bad_request" THEN stop(400)
           ELSE IF fault = "brand_stage" THEN stop(500)
           ELSE /\ request' = [stage |-> "model", predicted_brand |-> b,
                               cleanup_after |-> cleanup, calls0 |-> calls,
                               model_result |-> NoModelResult]
                /\ UNCHANGED response
    /\ UNCHANGED <<shared, config, locals, control, history, inspection, inference,
                   brand_classifier, car_model_classifier, AUTO_CLEANUP_MODELS>>

\* predict.py:157 and car_model_classifier.py:290: predict calls _load_brand_model
PredictLoad ==
    /\ request.stage = "model"
    /\ calls = request.calls0
    /\ CallLoad(1, request.predicted_brand)

\* a slip: the exception of the load is passed on to the caller
predict_reraises(r, inference_ok) ==
    IF r.kind = "raise" THEN [success |-> FALSE, error |-> r.why, escaped |-> TRUE]
    ELSE IF ~inference_ok THEN [success |-> FALSE, error |-> "inference", escaped |-> TRUE]
    ELSE [success |-> TRUE, error |-> "", escaped |-> FALSE]

\* CarModelClassifier.predict, lines 288-350: what it returns for what
\* _load_brand_model gave and for an inference (lines 291-328) that went
\* through or raised; the except clause turns both failures into a result
predict(r, inference_ok) ==
    IF r.kind = "raise" THEN [success |-> FALSE, error |-> r.why, escaped |-> FALSE]
    ELSE IF ~inference_ok THEN [success |-> FALSE, error |-> "inference", escaped |-> FALSE]
    ELSE [success |-> TRUE, error |-> "", escaped |-> FALSE]

\* predict.py:157: model_result = car_model_classifier.predict(...); an
\* exception would end the handler in its except clauses (lines 185-193)
PredictModel(inference_ok) ==
    /\ request.stage = "model"
    /\ calls > request.calls0
    /\ pc[1] = "idle"
    /\ LET m == predict(result[1], inference_ok)
       IN  IF m.escaped
           THEN /\ response' = [Response("predict", 500, "") EXCEPT
                                   !.found = [brand |-> TRUE, car |-> TRUE],
                                   !.cleanup_after = request.cleanup_after,
                                   !.selected_brand = request.predicted_brand]
                /\ request' = NoRequest
           ELSE /\ request' = [request EXCEPT !.stage = "predicted", !.model_result = m]
                /\ UNCHANGED response
    /\ UNCHANGED <<shared, config, locals, control, history, inspection, inference,
                   brand_classifier, car_model_classifier, AUTO_CLEANUP_MODELS>>

\* predict.py:160: should_cleanup = cleanup_after or settings.AUTO_CLEANUP_MODELS
should_cleanup(req, auto) == req.cleanup_after \/ auto

\* a slip: the outcome of the model stage is not looked at
CleansAlways(req, auto) == should_cleanup(req, auto)

\* predict.py:163: if should_cleanup and model_result.get('success')
Cleans(req, auto) == should_cleanup(req, auto) /\ req.model_result.success

\* predict.py:164: car_model_classifier.cleanup_brand_model(predicted_brand)
PredictCleanup ==
    /\ request.stage = "predicted"
    /\ op[1] = "GetOrLoad"
    /\ Cleans(request, AUTO_CLEANUP_MODELS)
    /\ CallEvict(1, request.predicted_brand)

\* predict.py:161-183: cleanup_performed is False, or what
\* cleanup_brand_model returned; the response
PredictRespond ==
    /\ request.stage = "predicted"
    /\ pc[1] = "idle"
    /\ Cleans(request, AUTO_CLEANUP_MODELS) => op[1] = "Evict"
    /\ response' = [Response("predict", 200, "") EXCEPT
                       !.found = [brand |-> TRUE, car |-> TRUE],
                       !.cleanup_after = request.cleanup_after,
                       !.model_success = request.model_result.success,
                       !.cleanup_performed = (op[1] = "Evict" /\ result[1] = Bool(TRUE)),
                       !.selected_brand = request.predicted_brand]
    /\ request' = NoRequest
    /\ UNCHANGED <<shared, config, locals, control, history, inspection, inference,
                   brand_classifier, car_model_classifier, AUTO_CLEANUP_MODELS>>

\* the API has started on a fresh deployment (an empty models directory, Audi
\* downloadable, Audi Sport only as a legacy file); nothing is injected yet
ApiInit ==
    /\ InitCommon
    /\ InspectionIdle
    /\ InferenceIdle
    /\ serial = TRUE
    /\ \A f \in ModelsPaths : disk[f] = NoFile
    /\ \A n \in LegacyNames : Exists(disk, LegacyPath(n)) => IsPrefix(normalize_brand_name(AudiSport), n)
    /\ drive_ids = [b \in Brands |-> IF b = Audi THEN "1AbC" ELSE ""]
    /\ brand_classifier = [m \in Modules |-> FALSE]
    /\ car_model_classifier = [m \in Modules |-> FALSE]
    /\ AUTO_CLEANUP_MODELS \in BOOLEAN
    /\ request = NoRequest
    /\ response = NoResponse

ApiNext ==
    \/ \E m \in Modules, b, c \in BOOLEAN : set_classifiers(m, b, c)
    \/ health_check
    \/ \E b \in Brands, cleanup \in BOOLEAN, fault \in Faults : PredictCarBegin(b, cleanup, fault)
    \/ PredictLoad
    \/ LoadCheck(1)
    \/ LoadHit(1)
    \/ LoadResolve(1)
    \/ LoadExists(1)
    \/ DownloadResolve(1)
    \/ DownloadExists(1)
    \/ Download(1)
    \/ TorchLoad(1)
    \/ Install(1)
    \/ LoadReturn(1)
    \/ \E ok \in BOOLEAN : PredictModel(ok)
    \/ PredictCleanup
    \/ EvictCheck(1)
    \/ EvictDel(1)
    \/ EvictResolve(1)
    \/ EvictUnlink(1)
    \/ PredictRespond

ApiSpec == ApiInit /\ [][ApiNext]_vars

(***************************************************************************)
(* The two schedules                                                       *)
(***************************************************************************)
Next ==
    \E p \in Procs :
        \/ \E b \in Brands : CallLoad(p, b)
        \/ LoadCheck(p)
        \/ LoadHit(p)
        \/ LoadResolve(p)
        \/ LoadExists(p)
        \/ DownloadResolve(p)
        \/ DownloadExists(p)
        \/ Download(p)
        \/ TorchLoad(p)
        \/ Install(p)
        \/ LoadReturn(p)
        \/ \E b \in Brands : CallEvict(p, b)
        \/ EvictCheck(p)
        \/ EvictDel(p)
        \/ EvictResolve(p)
        \/ EvictUnlink(p)
        \/ CallEvictAll(p)
        \/ AllKeys(p)
        \/ AllCheck(p)
        \/ AllDel(p)
        \/ AllList(p)
        \/ AllIsFile(p)
        \/ AllUnlink(p)
        \/ CallSnapshot(p)
        \/ SnapCache(p)
        \/ SnapDisk(p)

Spec == Init /\ [][Next]_vars
SeqSpec == SeqInit /\ [][Next]_vars

(***************************************************************************)
(* Properties                                                              *)
(***************************************************************************)
\* a load of its brand is in progress in caller p: past the cache test of
\* line 213, not yet past the insertion of line 260
InLoad(p) ==
    pc[p] \in {"L_resolve", "L_exists", "D_resolve", "D_exists", "D_download",
               "L_torch", "L_install"}

\* the serial caller is back from operation o
Returned(o) == serial /\ pc[1] = "idle" /\ op[1] = o

\* the state of the cache for a brand key, as the callers can tell it
BrandState(b) ==
    IF InCache(b, loaded_models) THEN "Ready"
    ELSE IF \E p \in Procs : InLoad(p) /\ brand[p] = b THEN "Loading"
    ELSE "Absent"

\* C1: at no time are two loads of the same brand in progress (so concurrent
\* GetOrLoad(B) calls fetch and build at most once).
C1_SingleFlight ==
    \A p, q \in Procs :
        (p # q /\ InLoad(p) /\ InLoad(q)) => brand[p] # brand[q]

\* C2: GetOrLoad(B) calls that overlapped have the same outcome: all the same
\* cached model, or all an error.
C2_SameOutcome ==
    \A p, q \in Procs :
        (/\ p # q
         /\ ~Busy(p) /\ op[p] = "GetOrLoad"
         /\ ~Busy(q) /\ op[q] = "GetOrLoad"
         /\ q \in overlap[p])
        => /\ result[p].kind = result[q].kind
           /\ result[p].a = result[q].a

\* C3: a brand key only goes Absent->Loading, Loading->Ready, Ready->Absent or
\* Loading->Absent; a Ready entry is never replaced by another Ready entry.
C3_Transitions ==
    [][\A b \in Brands :
         \/ /\ BrandState(b)' = BrandState(b)
            /\ loaded_models'[b] = loaded_models[b]
         \/ <<BrandState(b), BrandState(b)'>> \in
               { <<"Absent", "Loading">>, <<"Loading", "Ready">>,
                 <<"Ready", "Absent">>, <<"Loading", "Absent">> }]_vars

C5_FailedFetchRetried ==
    /\ (Returned("GetOrLoad") /\ result[1] = Raise("download_failed"))
       => ~InCache(brand[1], loaded_models)
    /\ (/\ Returned("GetOrLoad")
        /\ after[1].op = "GetOrLoad"
        /\ after[1].brand = brand[1]
        /\ after[1].res = Raise("download_failed"))
       => attempted[1]

C5_Witness ==
    /\ Returned("GetOrLoad")
    /\ after[1].op = "GetOrLoad"
    /\ after[1].brand = brand[1]
    /\ after[1].res = Raise("download_failed")
    /\ result[1].kind = "entry"

\* C6: the GetOrLoad(B) that follows Evict(B) never returns the object that was
\* cached before the eviction: it fails, or it returns the object it built
\* itself from the checkpoint.
C6_FreshLoadAfterEvict ==
    (/\ Returned("GetOrLoad")
     /\ after[1].op = "Evict"
     /\ after[1].brand = brand[1]
     /\ result[1].kind = "entry")
    => /\ built[1]
       /\ result[1].a = ticket[1]
       /\ result[1].a # after[1].was[brand[1]]

C6_Witness ==
    /\ Returned("GetOrLoad")
    /\ after[1].op = "Evict"
    /\ after[1].brand = brand[1]
    /\ InCache(brand[1], after[1].was)
    /\ result[1].kind = "entry"

\* the files that went away since the latest operation started
Deleted == {f \in Paths : Exists(pre.disk, f) /\ ~Exists(disk, f)}

C8_EvictRemovesModel ==
    Returned("Evict") =>
        /\ ~InCache(brand[1], loaded_models)
        /\ \A f \in GetModelPath(brand[1], disk, legacy_exists) : ~Exists(disk, f)

\* C9: once a GetOrLoad(B) and an Evict(B) that overlapped have both returned,
\* the cache holds no entry for B read from a file that this Evict deleted.
C9_EvictDuringLoad ==
    \A p, q \in Procs :
        (/\ ~Busy(p) /\ op[p] = "GetOrLoad"
         /\ ~Busy(q) /\ op[q] = "Evict"
         /\ brand[p] = brand[q]
         /\ q \in overlap[p])
        => ~(InCache(brand[p], loaded_models) /\ backing[brand[p]] \in unlinked[q])

\* C10: EvictAll returns the number of brands that were in the cache when it
\* was called and the number of files it deleted from the models directory.
C10_EvictAllCounts ==
    Returned("EvictAll") =>
        /\ result[1].kind = "counts"
        /\ result[1].a = Cardinality({b \in Brands : InCache(b, pre.cache)})
        /\ result[1].b = Cardinality(Deleted)
        /\ Deleted \subseteq ModelsPaths
        /\ Deleted = unlinked[1]

\* the counts differ: a brand loaded from the legacy directory, no file in the
\* models directory
C10_Witness ==
    /\ Returned("EvictAll")
    /\ result[1].a > result[1].b
    /\ result[1].a > 0

\* C11: after EvictAll every brand has to be downloaded again: the GetOrLoad(B)
\* that follows it finds no local checkpoint and goes to the remote source (it
\* issues a download, or finds that B has no remote identifier).
C11_EvictAllForcesDownload ==
    (/\ Returned("GetOrLoad")
     /\ after[1].op = "EvictAll")
    => \/ attempted[1]
       \/ result[1] = Raise("not_configured")

\* the items of a models list that name brand b, under its own spelling or
\* under the spelling of its file name
ItemsOf(b, models) ==
    {i \in 1..Len(models) : models[i].brand \in {b, normalize_brand_name(b)}}

\* C12: Snapshot lists a brand that is cached and has a checkpoint file in the
\* models directory exactly once, as in-memory.
C12_SnapshotListsOnce ==
    Returned("Snapshot") =>
        \A b \in Brands :
            (InCache(b, loaded_models) /\ Exists(disk, ModelsPath(CanonicalName(b))))
            => /\ Cardinality(ItemsOf(b, result[1].models)) = 1
               /\ \A i \in ItemsOf(b, result[1].models) : result[1].models[i].in_memory

\* caller p is at the statement that deletes the entry of brand b
Evicting(p, b) ==
    \/ pc[p] = "E_del" /\ brand[p] = b
    \/ pc[p] = "A_del" /\ key[p] = b

\* C13: GetOrLoad(B) on a cached brand returns the cached entry and neither
\* resolves a checkpoint, nor downloads, nor builds a network; and an entry
\* leaves the cache, or is replaced, only by a step of Evict or EvictAll.
C13_HitAndNoImplicitEviction ==
    /\ [](\A b \in Brands :
            (serial /\ op[1] = "GetOrLoad" /\ brand[1] = b /\ InCache(b, pre.cache))
            => /\ ~InLoad(1)
               /\ ~attempted[1] /\ ~built[1]
               /\ loaded_models = pre.cache /\ disk = pre.disk
               /\ pc[1] = "idle" => result[1] = Entry(pre.cache[b]))
    /\ [][\A b \in Brands :
            (InCache(b, loaded_models) /\ loaded_models'[b] # loaded_models[b])
            => /\ ~InCache(b, loaded_models')
               /\ \E p \in Procs : Evicting(p, b) /\ pc'[p] # pc[p]]_vars

\* a hit on a brand that stayed cached across a Snapshot
C13_Witness ==
    /\ Returned("GetOrLoad")
    /\ InCache(brand[1], pre.cache)
    /\ after[1].op = "Snapshot"
    /\ result[1] = Entry(pre.cache[brand[1]])

\* the checkpoint files of brand b on disk: the legacy files one of its
\* patterns matches, and its file in the models directory
LocalFiles(b, d, legacy) ==
    (IF legacy THEN Matches(1, b, d) \cup Matches(2, b, d) \cup Matches(3, b, d) ELSE {})
    \cup {f \in {ModelsPath(CanonicalName(b))} : Exists(d, f)}

\* C14: a download is attempted for brand B only when no local checkpoint of B
\* exists: none when the download is about to start, none when the call began.
C14_NoDownloadWhenLocal ==
    /\ (serial /\ pc[1] = "D_download") => LocalFiles(brand[1], disk, legacy_exists) = {}
    /\ (serial /\ attempted[1]) => LocalFiles(brand[1], pre.disk, legacy_exists) = {}

\* a download was made for one brand while the other had a local file
C14_Witness ==
    /\ Returned("GetOrLoad")
    /\ attempted[1]
    /\ result[1].kind = "entry"
    /\ \E c \in Brands \ {brand[1]} : LocalFiles(c, pre.disk, legacy_exists) # {}

\* C15: GetOrLoad(B) for a brand with no local checkpoint and no remote
\* identifier fails with the not-configured error, issues no download and
\* leaves cache and disk as they were; the classifier then still serves a
\* cached brand.
C15_NotConfiguredIsRecoverable ==
    /\ (/\ Returned("GetOrLoad")
        /\ ~InCache(brand[1], pre.cache)
        /\ LocalFiles(brand[1], pre.disk, legacy_exists) = {}
        /\ drive_ids[brand[1]] = "")
       => /\ result[1] = Raise("not_configured")
          /\ ~attempted[1]
          /\ loaded_models = pre.cache /\ disk = pre.disk
    /\ (/\ Returned("GetOrLoad")
        /\ after[1].op = "GetOrLoad"
        /\ after[1].res = Raise("not_configured")
        /\ InCache(brand[1], pre.cache))
       => result[1] = Entry(pre.cache[brand[1]])

\* the not-configured failure happened while another brand was cached, and a
\* later call loaded a brand from disk
C15_Witness ==
    /\ Returned("GetOrLoad")
    /\ after[1].op = "GetOrLoad"
    /\ after[1].res = Raise("not_configured")
    /\ after[1].brand # brand[1]
    /\ \E c \in Brands : InCache(c, after[1].was)
    /\ result[1].kind = "entry"

\* C16: a download that leaves no file, or a file of zero bytes, is reported as
\* a failed download, and nothing is loaded from it.
C16_EmptyDownloadIsFailure ==
    (/\ Returned("GetOrLoad")
     /\ attempted[1]
     /\ \/ disk = pre.disk
        \/ \E f \in Paths : ~Exists(pre.disk, f) /\ disk[f] = "empty")
    => result[1] = Raise("download_failed")

\* the path the serial caller has just resolved, if it has
JustResolved ==
    IF pc[1] \in {"L_exists", "E_unlink"} THEN {model_path[1]}
    ELSE IF pc[1] = "D_exists" THEN {dl_path[1]}
    ELSE {}

\* C17: the path resolved for a brand is a legacy file of the first pattern
\* that matches any, in the order _model_acc_*, _model, _*; it is the
\* canonical path of the models directory only when no legacy file matches,
\* so a legacy file wins over a canonical file of the brand.
C17_ResolvePriority ==
    serial =>
        \A r \in JustResolved :
            LET b == brand[1]
                M(k) == IF legacy_exists THEN Matches(k, b, disk) ELSE {}
            IN  /\ \A k \in 1..3 :
                      (M(k) # {} /\ \A j \in 1..(k - 1) : M(j) = {}) => r \in M(k)
                /\ (\A k \in 1..3 : M(k) = {}) <=> r = ModelsPath(CanonicalName(b))
                /\ (\E k \in 1..3 : M(k) # {}) => r[1] = "car_model"

\* files of the first and of the second pattern and the canonical file are all
\* there, and the file of the first pattern is resolved
C17_Witness ==
    /\ serial /\ pc[1] = "L_exists"
    /\ Matches(1, brand[1], disk) # {}
    /\ Matches(2, brand[1], disk) # {}
    /\ Exists(disk, ModelsPath(CanonicalName(brand[1])))
    /\ model_path[1] \in Matches(1, brand[1], disk)

\* the architecture has been detected
ArchDetected ==
    ipc \in {"arch_done", "done", "hidden_raised", "created", "weights_loaded",
             "load_raised", "cached"}

\* C18: a checkpoint's architecture tag is returned as it is, whatever the
\* backbone tensor says and whether or not the tag is a known variant.
C18_TagVerbatim ==
    (ipc # "loaded" /\ "architecture" \in checkpoint.keys)
    => /\ ArchDetected
       /\ arch_name = checkpoint.architecture

\* an unknown tag on a checkpoint whose backbone tensor is that of b0
C18_Witness ==
    /\ ipc = "arch_done"
    /\ "architecture" \in checkpoint.keys
    /\ checkpoint.architecture = "resnet50"
    /\ "features.8.0.weight" \in StateDict(checkpoint)
    /\ checkpoint.features = <<1280, 320>>
    /\ arch_name = "resnet50"

\* C19: without a tag, a backbone tensor of leading dimension 1280 gives
\* efficientnet_b0 and 1536 gives efficientnet_b3; any other leading dimension
\* or no tensor gives the default, efficientnet_b0 for the per-brand
\* classifier and efficientnet_b3 for the brand classifier.
C19_ArchitectureFromShape ==
    (ArchDetected /\ "architecture" \notin checkpoint.keys)
    => LET has == "features.8.0.weight" \in StateDict(checkpoint)
           dim == IF has /\ checkpoint.features # <<>> THEN checkpoint.features[1] ELSE 0
       IN  /\ dim = 1280 => arch_name = "efficientnet_b0"
           /\ dim = 1536 => arch_name = "efficientnet_b3"
           /\ (~has \/ dim \notin {0, 1280, 1536})
              => arch_name = (IF classifier = "CarModelClassifier"
                              THEN "efficientnet_b0" ELSE "efficientnet_b3")

\* the brand classifier falls back to b3 on an unrecognised leading dimension
C19_Witness ==
    /\ ipc = "arch_done"
    /\ classifier = "BrandClassifier"
    /\ "architecture" \notin checkpoint.keys
    /\ "features.8.0.weight" \in StateDict(checkpoint)
    /\ checkpoint.features = <<1408, 352>>
    /\ arch_name = "efficientnet_b3"

\* C20: hidden_size is the leading dimension of classifier.1.weight, and 512
\* when the tensor is absent, whatever the architecture.
C20_HiddenSize ==
    ipc = "done"
    => LET has == "classifier.1.weight" \in StateDict(checkpoint)
       IN  /\ (has /\ checkpoint.head # <<>>) => hidden_size = checkpoint.head[1]
           /\ ~has => hidden_size = 512

\* a head of 256 under a tag that names the large variant
C20_Witness ==
    /\ ipc = "done"
    /\ "classifier.1.weight" \in StateDict(checkpoint)
    /\ checkpoint.head = <<256, 1280>>
    /\ hidden_size = 256
    /\ arch_name = "efficientnet_b3"

\* C21: neither detection function raises, whatever the checkpoint: each
\* returns the detected value or the default.
C21_InspectorNeverRaises == ipc \notin {"arch_raised", "hidden_raised"}

\* the checkpoint's tensors are, name for name and shape for shape, the
\* parameters of the network built for it
ExactMatch ==
    /\ "model_state_dict" \in checkpoint.keys
    /\ checkpoint.state_keys = DOMAIN model.tensors
    /\ checkpoint.features = model.tensors["features.8.0.weight"]
    /\ checkpoint.head = model.tensors["classifier.1.weight"]
    /\ checkpoint.out = model.tensors["classifier.5.weight"]

\* C22: when the checkpoint's tensors do not exactly match the parameters of
\* the network built from the inferred architecture, hidden size and
\* num_classes, the load raises and nothing is cached.
C22_StrictLoad ==
    /\ (ipc \in {"weights_loaded", "load_raised", "cached"} /\ ~ExactMatch)
       => ipc = "load_raised"
    /\ ipc # "cached" => entry = NoEntry

\* a checkpoint tagged b3 with the tensors of b0 was refused
C22_Witness ==
    /\ ipc = "load_raised"
    /\ "architecture" \in checkpoint.keys
    /\ checkpoint.architecture = "efficientnet_b3"
    /\ checkpoint.state_keys = DOMAIN model.tensors
    /\ checkpoint.features = <<1280, 320>>
    /\ entry = NoEntry

\* C30: for a tag that is neither efficientnet_b0 nor efficientnet_b3 the
\* builder builds its default backbone, and the architecture recorded in the
\* cached entry names the backbone that was built.
C30_RecordedArchitecture ==
    /\ (model # NoModel /\ arch_name \notin {"efficientnet_b0", "efficientnet_b3"})
       => model.backbone = (IF classifier = "CarModelClassifier"
                            THEN "efficientnet_b0" ELSE "efficientnet_b3")
    /\ (ipc = "cached" /\ classifier = "CarModelClassifier")
       => entry.architecture = entry.backbone

\* C29: Evict(B) leaves every other brand alone: its cache entry is the one
\* it was, the file behind its Ready entry is still there, and so is every
\* file that resolved for it.
C29_EvictOnlyItsBrand ==
    Returned("Evict") =>
        \A c \in Brands \ {brand[1]} :
            /\ loaded_models[c] = pre.cache[c]
            /\ (InCache(c, loaded_models) /\ Exists(pre.disk, backing[c]))
               => Exists(disk, backing[c])
            /\ \A f \in GetModelPath(c, pre.disk, legacy_exists) :
                  Exists(pre.disk, f) => Exists(disk, f)

\* predict is over: it returned its list, returned success False, or raised
Finished == rpc \in {"returned", "failed", "raised"}

\* C23: predict returns a list of at most top_k predictions and of no more
\* predictions than the model has classes, whatever the size of the index map.
C23_LengthBounded ==
    Finished =>
        /\ rpc = "returned"
        /\ Len(predictions) <= top_k
        /\ Len(predictions) <= Len(probabilities)

\* C24: the ranks are 1, 2, ..., n, the confidences descend, and of two
\* classes of equal score the one of the lower index comes first.
C24_RankedDescending ==
    rpc = "returned" =>
        /\ \A i \in 1..Len(predictions) : predictions[i].rank = i
        /\ \A i, j \in 1..Len(predictions) :
              i < j => /\ predictions[i].confidence >= predictions[j].confidence
                       /\ predictions[i].confidence = predictions[j].confidence
                          => predictions[i].class_idx < predictions[j].class_idx

\* the map has an entry for the class, under either kind of key
HasEntry(keys, class_idx) == \E t \in KeyTypes : Key(t, class_idx) \in keys

\* C25: a selected class without an entry in the index map is named
\* Unknown_<index>, every other one by its entry, with keys of either kind.
C25_UnknownIndex ==
    rpc = "returned" =>
        \A i \in 1..Len(predictions) :
            predictions[i].name =
                IF HasEntry(idx_to_model, predictions[i].class_idx)
                THEN Name(predictions[i].class_idx)
                ELSE Unknown(predictions[i].class_idx)

\* C26: no failure of the model stage leaves CarModelClassifier.predict as an
\* exception: it returns success False with an error message, the classifier
\* is left as the failed load found it, and a 500 of predict_car comes from
\* before the model stage (no brand was selected yet).
C26_FailureIsAResult ==
    /\ request.stage = "predicted"
       => LET m == request.model_result
          IN  /\ ~m.escaped
              /\ m.success = (m.error = "")
              /\ (op[1] = "GetOrLoad" /\ result[1].kind = "raise")
                 => /\ ~m.success
                    /\ m.error = result[1].why
                    /\ pc[1] = "idle"
                    /\ loaded_models = pre.cache
    /\ (response.endpoint = "predict" /\ response.status_code = 500)
       => response.selected_brand = NoBrand

\* a request whose model stage succeeds after one whose model stage failed
C26_Witness ==
    /\ request.stage = "predicted"
    /\ request.model_result.success
    /\ response.endpoint = "predict"
    /\ response.status_code = 200
    /\ ~response.model_success

\* C27: /health answers 200 with a status when both classifiers are set, and
\* 503 with status unhealthy when either is not.
C27_Health ==
    response.endpoint = "health" =>
        IF response.found.brand /\ response.found.car
        THEN response.status_code = 200 /\ response.status # ""
        ELSE response.status_code = 503 /\ response.status = "unhealthy"

\* only the brand classifier was set when /health was asked
C27_Witness ==
    /\ response.endpoint = "health"
    /\ response.found.brand
    /\ ~response.found.car
    /\ response.status_code = 503

\* C28: predict_car evicts the brand exactly when the model stage succeeded and
\* cleanup_after or AUTO_CLEANUP_MODELS is set; the brand is then out of the
\* cache and cleanup_performed is what Evict returned; otherwise nothing is
\* evicted and cleanup_performed is false.
C28_CleanupAfterUse ==
    (request.stage = "none" /\ response.endpoint = "predict" /\ response.status_code = 200)
    => LET evicts == response.model_success
                     /\ (response.cleanup_after \/ AUTO_CLEANUP_MODELS)
       IN  /\ (op[1] = "Evict") = evicts
           /\ evicts => /\ brand[1] = response.selected_brand
                        /\ ~InCache(response.selected_brand, loaded_models)
                        /\ response.cleanup_performed = (result[1] = Bool(TRUE))
           /\ ~evicts => /\ ~response.cleanup_performed
                         /\ unlinked[1] = {}
                         /\ response.model_success
                            => InCache(response.selected_brand, loaded_models)

\* the brand was evicted after use on the caller's demand alone
C28_Witness ==
    /\ request.stage = "none"
    /\ response.endpoint = "predict"
    /\ response.status_code = 200
    /\ response.model_success
    /\ response.cleanup_after
    /\ ~AUTO_CLEANUP_MODELS
    /\ response.cleanup_performed
    /\ op[1] = "Evict"

====
